---- MODULE Spec2Model ----
(***************************************************************************)
(* Model of pypot/dynamixel/conversion.py: the conversions between the raw *)
(* register representation of a dynamixel motor and physical quantities.   *)
(*                                                                         *)
(* The module is a library of pure functions over immutable tables.  Each  *)
(* function is an operator; the state machine records one call at a time:  *)
(* op names the function being called ("idle" between two calls), arg its   *)
(* arguments, ret what it returned or raised.                               *)
(*                                                                         *)
(* Number representations                                                  *)
(*   - strings (model names) are sequences of one-character strings, so     *)
(*     that str.startswith is computed and not looked up;                   *)
(*   - a physical value with d decimals is the integer value * 10^d         *)
(*     (degrees in hundredths for the single-turn position, degrees in      *)
(*     thousandths for the multi-turn position, bauds in tenths);           *)
(*   - integers that reach 2^32 are "wide" integers <<hi, lo>> standing for *)
(*     hi * 2^16 + lo with lo in 0..65535 (hi may be negative).             *)
(* Float arithmetic is modelled by exact rational arithmetic followed by    *)
(* the rounding the code applies (round half to even).                      *)
(***************************************************************************)
EXTENDS Integers, Sequences, FiniteSets, TLC

VARIABLES op, arg, ret

vars == <<op, arg, ret>>

----------------------------------------------------------------------------
(* Results of a call: a returned value or a raised exception.               *)

Return(v) == [ok |-> TRUE, val |-> v]

Raise(e) == [ok |-> FALSE, err |-> e]

----------------------------------------------------------------------------
(* Arithmetic helpers                                                       *)

RECURSIVE Pow2(_)
Pow2(n) == IF n = 0 THEN 1 ELSE 2 * Pow2(n - 1)

Abs(x) == IF x < 0 THEN -x ELSE x

Min2(a, b) == IF a < b THEN a ELSE b

Max2(a, b) == IF a > b THEN a ELSE b

(* Python's value >> n on integers: floor division by 2^n.                  *)
Shr(value, n) == value \div Pow2(n)

(* round(num / den) for den > 0, ties to even (Python 3 round, numpy.round) *)
RoundHalfEven(num, den) ==
    LET q == num \div den
        r == num % den
    IN  IF 2 * r < den THEN q
        ELSE IF 2 * r > den THEN q + 1
        ELSE IF q % 2 = 0 THEN q ELSE q + 1

(* int(num / den) for den > 0: truncation toward zero.                      *)
IntTrunc(num, den) ==
    IF num >= 0 THEN num \div den ELSE -((-num) \div den)

----------------------------------------------------------------------------
(* Strings as character sequences                                           *)

startswith(s, prefix) ==
    /\ Len(s) >= Len(prefix)
    /\ SubSeq(s, 1, Len(prefix)) = prefix

sMX == <<"M", "X">>

sSR == <<"S", "R">>

sEX == <<"E", "X">>

sXM == <<"X", "M">>

sStar == <<"*">>

mMX28 == <<"M", "X", "-", "2", "8">>

mSRRH4D == <<"S", "R", "-", "R", "H", "4", "D">>

mEX106 == <<"E", "X", "-", "1", "0", "6">>

mXM430 == <<"X", "M", "-", "4", "3", "0">>

mAX12 == <<"A", "X", "-", "1", "2">>

mXL320 == <<"X", "L", "-", "3", "2", "0">>

(* The model names the calls are made with: one per family of every table,  *)
(* and names that no family prefix matches.                                 *)
ModelNames == {mMX28, mSRRH4D, mEX106, mXM430, mAX12, mXL320, sStar}

----------------------------------------------------------------------------
(* Position                                                                 *)

(* position_range: family -> (max_pos, max_deg)                             *)
position_range ==
    (sMX :> <<4096, 360>>) @@ (sSR :> <<4096, 360>>) @@
    (sEX :> <<4096, 251>>) @@ (sXM :> <<4096, 360>>) @@
    (sStar :> <<1024, 300>>)

(* The if/elif chain shared by dxl_to_degree and degree_to_dxl.             *)
determined_model(model) ==
    IF startswith(model, sMX) THEN sMX
    ELSE IF startswith(model, sSR) THEN sSR
    ELSE IF startswith(model, sEX) THEN sEX
    ELSE IF startswith(model, sXM) THEN sXM
    ELSE sStar

(* A mutant of dxl_to_degree: rounds to 1 decimal instead of 2.             *)
dxl_to_degree_round1(value, model) ==
    LET max_pos == position_range[determined_model(model)][1]
        max_deg == position_range[determined_model(model)][2]
    IN  10 * RoundHalfEven(20 * max_deg * value - 10 * max_deg * (max_pos - 1),
                           2 * (max_pos - 1))

(* dxl_to_degree: round(max_deg*value/(max_pos-1) - max_deg/2, 2), returned *)
(* in hundredths of a degree.                                               *)
dxl_to_degree(value, model) ==
    LET max_pos == position_range[determined_model(model)][1]
        max_deg == position_range[determined_model(model)][2]
    IN  RoundHalfEven(100 * max_deg * value - 50 * max_deg * (max_pos - 1),
                      max_pos - 1)

(* degree_to_dxl, value in hundredths of a degree:                          *)
(* int(round((max_pos-1) * ((max_deg/2 + value) / max_deg), 0)), clamped.   *)
degree_to_dxl(value, model) ==
    LET max_pos == position_range[determined_model(model)][1]
        max_deg == position_range[determined_model(model)][2]
        pos == RoundHalfEven((max_pos - 1) * (50 * max_deg + value),
                             100 * max_deg)
    IN  Min2(Max2(pos, 0), max_pos - 1)

----------------------------------------------------------------------------
(* Wide integers: <<hi, lo>> is hi * 2^16 + lo, 0 <= lo < 2^16.             *)

Base16 == Pow2(16)

WNorm(hi, lo) == <<hi + (lo \div Base16), lo % Base16>>

W(n) == WNorm(0, n)

WAdd(a, b) == WNorm(a[1] + b[1], a[2] + b[2])

WSub(a, b) == WNorm(a[1] - b[1], a[2] - b[2])

WLess(a, b) == a[1] < b[1] \/ (a[1] = b[1] /\ a[2] < b[2])

(* w * k for a small k >= 0.                                                *)
WMulSmall(w, k) == WNorm(w[1] * k, w[2] * k)

(* Floor quotient and remainder of w by a small d > 0.                      *)
WDivMod(w, d) ==
    LET t == (w[1] % d) * Base16 + w[2]
    IN  [q |-> <<w[1] \div d, t \div d>>, r |-> t % d]

(* 4294967296                                                               *)
Two32 == <<65536, 0>>

(* 4294967296 / 2                                                           *)
Half32 == <<32768, 0>>

----------------------------------------------------------------------------
(* Multi-turn position and speed                                            *)

(* The if/else of dxl_to_multi_degree and dxl_to_speed on the raw value.    *)
wrap32(value) ==
    IF WLess(Half32, value) THEN WSub(value, Two32) ELSE value

(* 0.088 * value, in thousandths of a degree.                               *)
dxl_to_multi_degree(value, model) == WMulSmall(wrap32(value), 88)

(* value in thousandths of a degree; value / 0.088 is value / 88 here.  The *)
(* position is kept as the numerator pos88 of pos88 / 88; numpy.clip keeps  *)
(* both ends of [0, 4294967296], numpy.round rounds half to even.           *)
multi_degree_to_dxl(value, model) ==
    LET top == WMulSmall(Two32, 88)
        pos88 == IF WLess(value, W(0)) THEN WAdd(top, value) ELSE value
        clipped == IF WLess(pos88, W(0)) THEN W(0)
                   ELSE IF WLess(top, pos88) THEN top
                   ELSE pos88
        d == WDivMod(clipped, 88)
    IN  IF 2 * d.r < 88 THEN d.q
        ELSE IF 2 * d.r > 88 THEN WAdd(d.q, W(1))
        ELSE IF d.q[2] % 2 = 0 THEN d.q ELSE WAdd(d.q, W(1))

(* speed_factor in thousandths.                                             *)
speed_factor(model) ==
    IF startswith(model, sMX) \/ startswith(model, sSR) THEN 114
    ELSE IF startswith(model, sXM) THEN 229
    ELSE 111

(* velocity * speed_factor, in thousandths of a unit.                       *)
dxl_to_speed(value, model) == WMulSmall(wrap32(value), speed_factor(model))

----------------------------------------------------------------------------
(* Byte codec                                                               *)

(* The accumulation loop of dxl_decode over data[0..i-1] (1-based here).    *)
RECURSIVE decode_loop(_, _)
decode_loop(data, i) ==
    IF i = 0 THEN 0
    ELSE decode_loop(data, i - 1) + data[i] * Pow2(8 * (i - 1))

(* A mutant of dxl_decode: shifts byte i by 4*i instead of 8*i.             *)
RECURSIVE decode_loop_shift4(_, _)
decode_loop_shift4(data, i) ==
    IF i = 0 THEN 0
    ELSE decode_loop_shift4(data, i - 1) + data[i] * Pow2(4 * (i - 1))

dxl_decode_shift4(data) ==
    IF Len(data) = 0 THEN Raise("ValueError")
    ELSE Return(decode_loop_shift4(data, Len(data)))

dxl_decode(data) ==
    IF Len(data) = 0 THEN Raise("ValueError")
    ELSE Return(decode_loop(data, Len(data)))

(* zip over n references to one iterator of data: the j-th tuple           *)
(* is the next n items of data; an incomplete last tuple is dropped, and    *)
(* with n = 0 zip() has no argument and yields nothing.                     *)
zip_chunks(data, n) ==
    IF n = 0 THEN <<>>
    ELSE [j \in 1 .. (Len(data) \div n) |->
             SubSeq(data, (j - 1) * n + 1, j * n)]

(* A mutant of dxl_decode_all: returns the values in reverse order.         *)
dxl_decode_all_reversed(data, nb_elem) ==
    IF nb_elem > 1
    THEN LET chunks == zip_chunks(data, Len(data) \div nb_elem)
         IN  Return([j \in 1 .. Len(chunks) |->
                        dxl_decode(chunks[Len(chunks) + 1 - j]).val])
    ELSE dxl_decode(data)

(* Every chunk of zip_chunks has n >= 1 bytes, so the mapped dxl_decode     *)
(* never raises in the first branch.                                        *)
dxl_decode_all(data, nb_elem) ==
    IF nb_elem > 1
    THEN LET chunks == zip_chunks(data, Len(data) \div nb_elem)
         IN  Return([j \in 1 .. Len(chunks) |-> dxl_decode(chunks[j]).val])
    ELSE dxl_decode(data)

dxl_code(value, length) ==
    IF length <= 0 THEN Raise("ValueError")
    ELSE Return([i \in 1 .. length |-> Shr(value, 8 * (i - 1)) % 256])

(* itertools.chain over seqs: the concatenation of the sequences in order.  *)
RECURSIVE chain(_)
chain(seqs) ==
    IF Len(seqs) = 0 THEN <<>> ELSE Head(seqs) \o chain(Tail(seqs))

(* The generator is exhausted by the star-unpacking, so the first dxl_code  *)
(* that raises makes the whole call raise.                                  *)
dxl_code_all(value, length, nb_elem) ==
    IF nb_elem > 1
    THEN IF \E j \in 1 .. Len(value) : ~dxl_code(value[j], length).ok
         THEN Raise("ValueError")
         ELSE Return(chain([j \in 1 .. Len(value) |->
                               dxl_code(value[j], length).val]))
    ELSE dxl_code(value, length)

----------------------------------------------------------------------------
(* Time: the module defines dxl_to_ms and ms_to_dxl twice.                  *)

XMTimeFactor == 20

(* Lines 175-179.                                                           *)
dxl_to_ms_first(value, model) ==
    LET time_factor == IF startswith(model, sXM) THEN XMTimeFactor ELSE 1
    IN  time_factor * value

(* Lines 180-184: value // time_factor is a floor division.                 *)
ms_to_dxl_first(value, model) ==
    LET time_factor == IF startswith(model, sXM) THEN XMTimeFactor ELSE 1
    IN  value \div time_factor

(* Lines 310-311: int(value / 20).                                          *)
ms_to_dxl_later(value, model) == IntTrunc(value, 20)

(* Lines 313-314.                                                           *)
dxl_to_ms_later(value, model) == value * 20

(* The def statements of the two names, in the order the module body        *)
(* executes them: <<name, line>>.                                           *)
time_defs ==
    << <<"dxl_to_ms", 175>>, <<"ms_to_dxl", 180>>,
       <<"ms_to_dxl", 310>>, <<"dxl_to_ms", 313>> >>

(* A mutant of bound_def: the first def statement of a name wins.           *)
bound_def_first(name) ==
    LET idx == {i \in 1 .. Len(time_defs) : time_defs[i][1] = name}
        first == CHOOSE i \in idx : \A j \in idx : i <= j
    IN  time_defs[first][2]

(* The function a name is bound to once the module body has run: each def   *)
(* statement rebinds the name, so the last one stays.                       *)
bound_def(name) ==
    LET idx == {i \in 1 .. Len(time_defs) : time_defs[i][1] = name}
        last == CHOOSE i \in idx : \A j \in idx : j <= i
    IN  time_defs[last][2]

(* What a caller of conversion.dxl_to_ms gets.                              *)
dxl_to_ms(value, model) ==
    IF bound_def("dxl_to_ms") = 175 THEN dxl_to_ms_first(value, model)
    ELSE dxl_to_ms_later(value, model)

(* What a caller of conversion.ms_to_dxl gets.                              *)
ms_to_dxl(value, model) ==
    IF bound_def("ms_to_dxl") = 180 THEN ms_to_dxl_first(value, model)
    ELSE ms_to_dxl_later(value, model)

----------------------------------------------------------------------------
(* Baud rate, rates in tenths of a baud.  A dict keeps its insertion order, *)
(* so a table is the sequence of its <<key, value>> items.  In the literal  *)
(* of dynamixelBaudrates the line "4: 400000.0,-" ends with a minus sign,   *)
(* which makes the key of the next item -16.                                *)

dynamixelBaudrates ==
    << <<1, 10000000>>, <<3, 5000000>>, <<4, 4000000>>, <<-16, 1176471>>,
       <<34, 576000>>, <<103, 192308>>, <<207, 96154>>, <<250, 22500000>>,
       <<251, 25000000>>, <<252, 30000000>> >>

XL320Baudrates ==
    << <<0, 96000>>, <<1, 576000>>, <<2, 1152000>>, <<3, 10000000>> >>

(* dynamixelBaudratesWithModel.get(model, dynamixelBaudrates)               *)
current_baudrates(model) ==
    IF model = mXL320 THEN XL320Baudrates ELSE dynamixelBaudrates

Keys(table) == {table[i][1] : i \in 1 .. Len(table)}

Lookup(table, key) ==
    table[CHOOSE i \in 1 .. Len(table) : table[i][1] = key][2]

dxl_to_baudrate(value, model) ==
    IF value \in Keys(current_baudrates(model))
    THEN Return(Lookup(current_baudrates(model), value))
    ELSE Raise("KeyError")

(* abs(v - value) / float(value) < 0.05, v and value in tenths: the         *)
(* quotient is not positive when value < 0.                                 *)
baud_match(v, value) ==
    IF value > 0 THEN 20 * Abs(v - value) < value ELSE TRUE

(* A mutant of baudrate_to_dxl: the tolerance is 50% instead of 5%.         *)
baudrate_to_dxl_loose(value, model) ==
    LET table == current_baudrates(model)
        hits == {i \in 1 .. Len(table) : 2 * Abs(table[i][2] - value) < value}
    IN  IF value = 0 THEN Raise("ZeroDivisionError")
        ELSE IF hits = {} THEN Raise("ValueError")
        ELSE Return(table[CHOOSE i \in hits : \A j \in hits : i <= j][1])

(* The loop returns at the first matching item; the division raises on the  *)
(* first item when value is 0.                                              *)
baudrate_to_dxl(value, model) ==
    LET table == current_baudrates(model)
        hits == {i \in 1 .. Len(table) : baud_match(table[i][2], value)}
    IN  IF value = 0 THEN Raise("ZeroDivisionError")
        ELSE IF hits = {} THEN Raise("ValueError")
        ELSE Return(table[CHOOSE i \in hits : \A j \in hits : i <= j][1])

----------------------------------------------------------------------------
(* Error                                                                    *)

dynamixelErrors ==
    << "None Error", "Instruction Error", "Overload Error", "Checksum Error",
       "Range Error", "Overheating Error", "Angle Limit Error",
       "Input Voltage Error" >>

(* list.index(e), 0-based.                                                  *)
index(list, e) == (CHOOSE i \in 1 .. Len(list) : list[i] = e) - 1

Range(seq) == {seq[i] : i \in 1 .. Len(seq)}

(* The items of seq, in order, whose position is in keep.                   *)
RECURSIVE Select(_, _, _)
Select(seq, keep, i) ==
    IF i > Len(seq) THEN <<>>
    ELSE (IF i \in keep THEN <<seq[i]>> ELSE <<>>) \o Select(seq, keep, i + 1)

(* numpy.unpackbits of one uint8: 8 bits, most significant first.           *)
unpackbits(byte) == [j \in 1 .. 8 |-> Shr(byte, 8 - j) % 2]

(* A mutant of decode_error: least significant bit first.                   *)
decode_error_lsb(error_code) ==
    LET bits == [j \in 1 .. 8 |-> Shr(error_code % 256, j - 1) % 2]
    IN  Select(dynamixelErrors, {j \in 1 .. 8 : bits[j] = 1}, 1)

(* numpy.asarray(error_code, dtype=uint8) keeps the low 8 bits.             *)
decode_error(error_code) ==
    LET bits == unpackbits(error_code % 256)
    IN  Select(dynamixelErrors, {j \in 1 .. 8 : bits[j] = 1}, 1)

dxl_to_alarm(value, model) == decode_error(value)

RECURSIVE SumPow2(_)
SumPow2(indices) ==
    IF indices = {} THEN 0
    ELSE LET i == CHOOSE x \in indices : TRUE
         IN  Pow2(i) + SumPow2(indices \ {i})

(* value is a collection of distinct names (a set).                         *)
alarm_to_dxl(value, model) ==
    IF ~(value \subseteq Range(dynamixelErrors)) THEN Raise("ValueError")
    ELSE Return(SumPow2({Len(dynamixelErrors) - 1 - index(dynamixelErrors, e) :
                            e \in value}))

----------------------------------------------------------------------------
(* Bounds                                                                   *)

(* Angles passed to degree_to_dxl: CentiBases + (-MaxCenti..MaxCenti).      *)
MaxCenti == 3

CentiBases == {-18100, -15000, -12550, 0, 12550, 15000, 18100}

(* Byte widths passed to the codec: -1..MaxLen.                             *)
MaxLen == 2

(* Number of register values of a multi-value call: 1..MaxElem.             *)
MaxElem == 3

(* Length of the byte buffers passed to the decoder: 0..MaxData.            *)
MaxData == 3

(* Integers passed to dxl_code: 0..MaxValue and the values around the       *)
(* widths of 1, 2 and 3 bytes.                                              *)
MaxValue == 300

CodeValues ==
    (0 .. MaxValue) \cup {-16, -1, 65535, 65536, 65836, 16777215, 16777260}

(* Bytes of the buffers passed to the decoder.                              *)
ByteSamples == {0, 1, 127}

(* Register values of a multi-value call.                                   *)
ElemValues == {0, 1, 255, 300, 65535}

(* Raw times passed to dxl_to_ms: 0..MaxTime; milliseconds passed to        *)
(* ms_to_dxl: -MaxTime..20*MaxTime.                                         *)
MaxTime == 40

(* Requested baud rates: every tabulated rate scaled by (100 + p)%, p in    *)
(* -MaxPct..MaxPct, and the rates of OddRates.                              *)
MaxPct == 7

TabulatedRates ==
    {dynamixelBaudrates[i][2] : i \in 1 .. Len(dynamixelBaudrates)} \cup
    {XL320Baudrates[i][2] : i \in 1 .. Len(XL320Baudrates)}

OddRates == {-10000000, -10, 0, 10, 10000005}

RequestedRates ==
    {v + (v \div 100) * p : v \in TabulatedRates, p \in -MaxPct .. MaxPct}
        \cup OddRates

(* Register values passed to dxl_to_baudrate.                               *)
BaudCodes ==
    Keys(dynamixelBaudrates) \cup Keys(XL320Baudrates) \cup {2, 16, 240, 255}

BaudModels == {mMX28, mXL320, sStar}

ErrorNames == Range(dynamixelErrors) \cup {"Bogus Error"}

(* 32-bit raw values: hi in HiSamples, lo within MaxLo of either end.       *)
MaxLo == 2

HiSamples == {0, 1, 32767, 32768, 32769, 65535}

Raw32Samples ==
    {<<hi, lo>> : hi \in HiSamples,
                  lo \in (0 .. MaxLo) \cup (Base16 - 1 - MaxLo .. Base16 - 1)}

(* Multi-turn angles in thousandths of a degree: a base plus an offset in   *)
(* -MaxMilli..MaxMilli.  The bases are 0, +-1000 degrees, +-88 * 2^31 and   *)
(* +-88 * 2^32 thousandths and +-2^40 thousandths.                          *)
MaxMilli == 90

MilliBases ==
    {W(0), W(1000000), WSub(W(0), W(1000000)),
     <<2883584, 0>>, <<-2883584, 0>>, <<5767168, 0>>, <<-5767168, 0>>,
     <<16777216, 0>>, <<-16777216, 0>>}

SeqsOfLen(S, n) == [1 .. n -> S]

SeqsUpTo(S, n) == UNION {SeqsOfLen(S, k) : k \in 0 .. n}

----------------------------------------------------------------------------
(* The state machine                                                        *)

Init ==
    /\ op = "idle"
    /\ arg = <<>>
    /\ ret = <<>>

Call_dxl_to_degree ==
    /\ op = "idle"
    /\ \E model \in ModelNames :
      \E value \in 0 .. position_range[determined_model(model)][1] - 1 :
        /\ op' = "dxl_to_degree"
        /\ arg' = [value |-> value, model |-> model]
        /\ ret' = dxl_to_degree(value, model)

Call_degree_to_dxl ==
    /\ op = "idle"
    /\ \E model \in ModelNames, base \in CentiBases, k \in -MaxCenti .. MaxCenti :
        /\ op' = "degree_to_dxl"
        /\ arg' = [value |-> base + k, model |-> model]
        /\ ret' = degree_to_dxl(base + k, model)

Call_dxl_decode ==
    /\ op = "idle"
    /\ \E data \in SeqsUpTo(ByteSamples, MaxData) :
        /\ op' = "dxl_decode"
        /\ arg' = [data |-> data]
        /\ ret' = dxl_decode(data)

Call_dxl_decode_all ==
    /\ op = "idle"
    /\ \E data \in SeqsUpTo(ByteSamples, MaxData), nb_elem \in 1 .. MaxElem :
        /\ op' = "dxl_decode_all"
        /\ arg' = [data |-> data, nb_elem |-> nb_elem]
        /\ ret' = dxl_decode_all(data, nb_elem)

Call_dxl_code ==
    /\ op = "idle"
    /\ \E value \in CodeValues, length \in -1 .. MaxLen :
        /\ op' = "dxl_code"
        /\ arg' = [value |-> value, length |-> length]
        /\ ret' = dxl_code(value, length)

(* A caller passes one integer when nb_elem = 1 and a sequence of nb_elem   *)
(* integers otherwise.                                                      *)
Call_dxl_code_all ==
    /\ op = "idle"
    /\ \E nb_elem \in 1 .. MaxElem, length \in -1 .. MaxLen :
         \E value \in IF nb_elem = 1 THEN ElemValues
                      ELSE SeqsOfLen(ElemValues, nb_elem) :
            /\ op' = "dxl_code_all"
            /\ arg' = [value |-> value, length |-> length, nb_elem |-> nb_elem]
            /\ ret' = dxl_code_all(value, length, nb_elem)

Call_dxl_to_ms ==
    /\ op = "idle"
    /\ \E value \in 0 .. MaxTime, model \in ModelNames :
        /\ op' = "dxl_to_ms"
        /\ arg' = [value |-> value, model |-> model]
        /\ ret' = dxl_to_ms(value, model)

Call_ms_to_dxl ==
    /\ op = "idle"
    /\ \E value \in -MaxTime .. 20 * MaxTime, model \in ModelNames :
        /\ op' = "ms_to_dxl"
        /\ arg' = [value |-> value, model |-> model]
        /\ ret' = ms_to_dxl(value, model)

Call_dxl_to_baudrate ==
    /\ op = "idle"
    /\ \E value \in BaudCodes, model \in BaudModels :
        /\ op' = "dxl_to_baudrate"
        /\ arg' = [value |-> value, model |-> model]
        /\ ret' = dxl_to_baudrate(value, model)

Call_baudrate_to_dxl ==
    /\ op = "idle"
    /\ \E value \in RequestedRates, model \in BaudModels :
        /\ op' = "baudrate_to_dxl"
        /\ arg' = [value |-> value, model |-> model]
        /\ ret' = baudrate_to_dxl(value, model)

Call_dxl_to_alarm ==
    /\ op = "idle"
    /\ \E value \in 0 .. 255 :
        /\ op' = "dxl_to_alarm"
        /\ arg' = [value |-> value, model |-> sStar]
        /\ ret' = dxl_to_alarm(value, sStar)

Call_alarm_to_dxl ==
    /\ op = "idle"
    /\ \E value \in SUBSET ErrorNames :
        /\ op' = "alarm_to_dxl"
        /\ arg' = [value |-> value, model |-> sStar]
        /\ ret' = alarm_to_dxl(value, sStar)

Call_dxl_to_multi_degree ==
    /\ op = "idle"
    /\ \E value \in Raw32Samples, model \in ModelNames :
        /\ op' = "dxl_to_multi_degree"
        /\ arg' = [value |-> value, model |-> model]
        /\ ret' = dxl_to_multi_degree(value, model)

Call_multi_degree_to_dxl ==
    /\ op = "idle"
    /\ \E base \in MilliBases, k \in -MaxMilli .. MaxMilli, model \in {mXM430} :
        /\ op' = "multi_degree_to_dxl"
        /\ arg' = [value |-> WAdd(base, W(k)), model |-> model]
        /\ ret' = multi_degree_to_dxl(WAdd(base, W(k)), model)

Call_dxl_to_speed ==
    /\ op = "idle"
    /\ \E value \in Raw32Samples, model \in ModelNames :
        /\ op' = "dxl_to_speed"
        /\ arg' = [value |-> value, model |-> model]
        /\ ret' = dxl_to_speed(value, model)

(* The call is over: its result has been handed to the caller.  No state   *)
(* is retained between calls.                                               *)
Finish ==
    /\ op # "idle"
    /\ op' = "idle"
    /\ arg' = <<>>
    /\ ret' = <<>>

Next ==
    \/ Call_dxl_to_degree
    \/ Call_degree_to_dxl
    \/ Call_dxl_decode
    \/ Call_dxl_decode_all
    \/ Call_dxl_code
    \/ Call_dxl_code_all
    \/ Call_dxl_to_ms
    \/ Call_ms_to_dxl
    \/ Call_dxl_to_baudrate
    \/ Call_baudrate_to_dxl
    \/ Call_dxl_to_alarm
    \/ Call_alarm_to_dxl
    \/ Call_dxl_to_multi_degree
    \/ Call_multi_degree_to_dxl
    \/ Call_dxl_to_speed
    \/ Finish

Spec == Init /\ [][Next]_vars

----------------------------------------------------------------------------
(* C1: position round trip.  For every model family of position_range and  *)
(* every raw tick value 0 <= raw <= max_pos - 1, converting the result of   *)
(* dxl_to_degree back with degree_to_dxl gives the raw value again.         *)
C1_PositionRoundTrip ==
    /\ op = "dxl_to_degree" => degree_to_dxl(ret, arg.model) = arg.value
    /\ op = "degree_to_dxl" =>
          ret \in 0 .. position_range[determined_model(arg.model)][1] - 1

(* A raw value in the upper half of an EX motor (251 degree range) has been *)
(* decoded to a positive angle and converts back to itself.                 *)
C1_Witness ==
    /\ op = "dxl_to_degree"
    /\ arg.model = mEX106
    /\ arg.value = 4000
    /\ ret = 11968
    /\ degree_to_dxl(ret, arg.model) = 4000

(* C2: the byte codec rejects invalid input.  dxl_decode_all (and           *)
(* dxl_decode) raise on every empty byte buffer, for every count >= 1, and  *)
(* dxl_code_all (and dxl_code) raise on every byte width <= 0, for every    *)
(* count >= 1; no value is returned in these cases.                         *)
C2_InvalidInputRaises ==
    /\ (op = "dxl_decode" /\ Len(arg.data) = 0) => ~ret.ok
    /\ (op = "dxl_decode_all" /\ Len(arg.data) = 0 /\ arg.nb_elem >= 1)
          => ~ret.ok
    /\ (op = "dxl_code" /\ arg.length <= 0) => ~ret.ok
    /\ (op = "dxl_code_all" /\ arg.length <= 0 /\ arg.nb_elem >= 1)
          => ~ret.ok

(* C3: byte codec round trip with silent truncation.  For value >= 0 and    *)
(* length >= 1, dxl_code returns exactly length bytes, each in 0..255, byte *)
(* i being (value >> 8*i) mod 256, and never raises; decoding them gives    *)
(* value mod 256^length.                                                    *)
C3_CodeDecodeTruncates ==
    (op = "dxl_code" /\ arg.value >= 0 /\ arg.length >= 1) =>
        /\ ret.ok
        /\ Len(ret.val) = arg.length
        /\ \A i \in 1 .. arg.length :
              /\ ret.val[i] \in 0 .. 255
              /\ ret.val[i] = (arg.value \div Pow2(8 * (i - 1))) % 256
        /\ dxl_decode(ret.val).ok
        /\ dxl_decode(ret.val).val = arg.value % Pow2(8 * arg.length)

(* dxl_code(300, 1) has returned the single byte 44.                        *)
C3_Witness ==
    /\ op = "dxl_code"
    /\ arg.value = 300
    /\ arg.length = 1
    /\ ret.ok
    /\ ret.val = <<44>>
    /\ dxl_decode(ret.val).val = 44

(* C9: multi-value register round trip.  For count >= 1, length >= 1 and    *)
(* count values each in [0, 256^length), dxl_code_all returns the in-order  *)
(* concatenation of the little-endian encodings (count * length bytes) and  *)
(* dxl_decode_all of that buffer with the same count returns the same       *)
(* values in the same order; with count = 1 the value is a single integer   *)
(* and not a one-element sequence.                                          *)
C9_MultiValueRoundTrip ==
    (/\ op = "dxl_code_all"
     /\ arg.length >= 1
     /\ IF arg.nb_elem = 1
        THEN arg.value \in 0 .. Pow2(8 * arg.length) - 1
        ELSE \A j \in 1 .. arg.nb_elem :
                arg.value[j] \in 0 .. Pow2(8 * arg.length) - 1)
    =>  /\ ret.ok
        /\ Len(ret.val) = arg.nb_elem * arg.length
        /\ dxl_decode_all(ret.val, arg.nb_elem).ok
        /\ IF arg.nb_elem = 1
           THEN /\ \A i \in 1 .. arg.length :
                      ret.val[i] = (arg.value \div Pow2(8 * (i - 1))) % 256
                /\ dxl_decode_all(ret.val, 1).val = arg.value
           ELSE /\ \A j \in 1 .. arg.nb_elem : \A i \in 1 .. arg.length :
                      ret.val[(j - 1) * arg.length + i] =
                          (arg.value[j] \div Pow2(8 * (i - 1))) % 256
                /\ Len(dxl_decode_all(ret.val, arg.nb_elem).val) = arg.nb_elem
                /\ dxl_decode_all(ret.val, arg.nb_elem).val = arg.value

(* Three two-byte values have been encoded into six bytes that decode back  *)
(* to the same three values in the same order.                              *)
C9_Witness ==
    /\ op = "dxl_code_all"
    /\ arg.nb_elem = 3
    /\ arg.length = 2
    /\ arg.value = <<300, 1, 65535>>
    /\ ret.ok
    /\ ret.val = <<44, 1, 1, 0, 255, 255>>
    /\ dxl_decode_all(ret.val, 3).val = <<300, 1, 65535>>

(* C4: error bitmask round trip.  For every subset S of the 8 names of      *)
(* dynamixelErrors, alarm_to_dxl(S) is the sum of 2^(7 - index) over the    *)
(* names of S, a value in 0..255, and dxl_to_alarm of it contains exactly   *)
(* the names of S; alarm_to_dxl raises when S has a name outside the list.  *)
C4_AlarmRoundTrip ==
    op = "alarm_to_dxl" =>
        IF arg.value \subseteq Range(dynamixelErrors)
        THEN /\ ret.ok
             /\ ret.val \in 0 .. 255
             /\ \A i \in 0 .. 7 :
                   (Shr(ret.val, 7 - i) % 2 = 1) <=>
                       (dynamixelErrors[i + 1] \in arg.value)
             /\ Range(dxl_to_alarm(ret.val, arg.model)) = arg.value
        ELSE ~ret.ok

(* The set of the first and the last name has been encoded as 128 + 1.      *)
C4_Witness ==
    /\ op = "alarm_to_dxl"
    /\ arg.value = {"None Error", "Input Voltage Error"}
    /\ ret.ok
    /\ ret.val = 129
    /\ dxl_to_alarm(129, arg.model) = <<"None Error", "Input Voltage Error">>

(* The tabulated rate v is within 5% relative error of the requested rate.  *)
Within5(v, value) == 20 * Abs(v - value) < Abs(value)

(* C7: baud rate encode is an approximate match that fails otherwise.       *)
(* baudrate_to_dxl returns a code k only when the tabulated rate of k in    *)
(* the model's table is within 5% relative error of the requested rate, k   *)
(* being the first such code in table order, and it raises whenever no      *)
(* tabulated rate is within 5%.                                             *)
C7_BaudrateApproximateMatch ==
    op = "baudrate_to_dxl" =>
        LET table == current_baudrates(arg.model)
            near == {i \in 1 .. Len(table) : Within5(table[i][2], arg.value)}
        IN  /\ ret.ok =>
                 /\ near # {}
                 /\ ret.val = table[CHOOSE i \in near : \A j \in near : i <= j][1]
            /\ near = {} => ~ret.ok

(* C8: the later-defined time conversions are the ones in effect, for every *)
(* model: dxl_to_ms is raw * 20 and ms_to_dxl is int(value / 20) whether or *)
(* not the model name starts with XM, so a raw value >= 0 survives          *)
(* dxl_to_ms followed by ms_to_dxl.                                         *)
C8_TimeLaterDefinition ==
    /\ op = "dxl_to_ms" =>
          /\ ret = arg.value * 20
          /\ ms_to_dxl(ret, arg.model) = arg.value
    /\ op = "ms_to_dxl" =>
          ret = (IF arg.value >= 0 THEN arg.value \div 20
                 ELSE -((-arg.value) \div 20))

(* A raw time of an AX-12 (not an XM) has been multiplied by 20, where the  *)
(* first definition would have returned it unchanged.                       *)
C8_Witness ==
    /\ op = "dxl_to_ms"
    /\ arg.model = mAX12
    /\ arg.value = 7
    /\ ret = 140
    /\ dxl_to_ms_first(arg.value, arg.model) = 7
    /\ ms_to_dxl(ret, arg.model) = 7

(* C10: the baud rate survives the full register path.  Every code k of a   *)
(* baud rate table is a one-byte register value, 0 <= k <= 255, encoding    *)
(* the rate of k gives k, and the code of every tabulated rate, pushed      *)
(* through dxl_code with length 1 and dxl_decode, decodes to that rate.     *)
C10_BaudrateRegisterPath ==
    /\ (op = "dxl_to_baudrate" /\ ret.ok) =>
          /\ arg.value \in 0 .. 255
          /\ baudrate_to_dxl(ret.val, arg.model) = Return(arg.value)
    /\ (/\ op = "baudrate_to_dxl"
        /\ arg.value \in Range([i \in 1 .. Len(current_baudrates(arg.model)) |->
                                   current_baudrates(arg.model)[i][2]]))
       => /\ ret.ok
          /\ ret.val \in 0 .. 255
          /\ dxl_code(ret.val, 1).ok
          /\ dxl_decode(dxl_code(ret.val, 1).val).ok
          /\ dxl_to_baudrate(dxl_decode(dxl_code(ret.val, 1).val).val,
                             arg.model) = Return(arg.value)

(* The two's-complement signed 32-bit value of raw, 0 <= raw < 2^32.        *)
Signed32(raw) == IF WLess(raw, Half32) THEN raw ELSE WSub(raw, Two32)

(* C5: signed 32-bit reinterpretation on decode.  For every raw in          *)
(* [0, 2^32) the integer that dxl_to_multi_degree scales by 0.088 and that  *)
(* dxl_to_speed scales by the speed factor is the two's-complement value of *)
(* raw: raw itself when raw < 2^31 and raw - 2^32 when raw >= 2^31.         *)
C5_SignedReinterpretation ==
    /\ op = "dxl_to_multi_degree" =>
          ret = WMulSmall(Signed32(arg.value), 88)
    /\ op = "dxl_to_speed" =>
          ret = WMulSmall(Signed32(arg.value), speed_factor(arg.model))

(* C6: the multi-turn encode stays inside the 32-bit register range.  For   *)
(* every angle, multi_degree_to_dxl returns a raw value with                *)
(* 0 <= raw < 2^32, and multi_degree_to_dxl(-0.088) is 4294967295.          *)
C6_MultiTurnEncodeInRange ==
    op = "multi_degree_to_dxl" =>
        /\ ~WLess(ret, W(0))
        /\ WLess(ret, Two32)
        /\ (arg.value = WSub(W(0), W(88)) => ret = <<65535, 65535>>)

====
